---------------------------- MODULE Spec2Model ----------------------------
(***************************************************************************)
(* The post listing (Home), the post lookup (getPostFromParams) and the    *)
(* three handlers built on it (generateMetadata, generateStaticParams,     *)
(* PostPage) of the blog, over the module-level array allPosts that the    *)
(* content pipeline generates and both pages import; and the theme toggle  *)
(* (ModeToggle) with the icon that follows the theme (GitHubIcon).         *)
(*                                                                         *)
(* Representation.  A JavaScript string that the code takes apart or puts  *)
(* together (slugAsParams, a route segment) is a sequence of one-character *)
(* strings, so that join, split and === are computed and not assumed.      *)
(* Display strings that are only copied (title, description, body.code)    *)
(* are TLA+ strings.  A value that may be undefined is a sequence of       *)
(* length at most one: << >> is undefined, <<v>> is the value v.           *)
(***************************************************************************)
EXTENDS Integers, Sequences, FiniteSets, TLC

VARIABLES
    allPosts,       \* the shared array imported from contentlayer/generated
    generated,      \* the array as the content pipeline generated it (history)
    home,           \* what the last render of Home returned
    meta,           \* what the last call of generateMetadata returned
    page,           \* what the last render of PostPage looked up and returned
    static,         \* what the last call of generateStaticParams returned
    timeZone,       \* the time zone of the rendering process, hours from UTC
    theme,          \* the theme value useTheme() gives to every component
    stored,         \* the theme the provider has persisted, if any
    clicked,        \* the theme the toggle read at each click so far (history)
    icon,           \* the image GitHubIcon shows
    systemTheme     \* the colour scheme the visitor's system prefers

blogVars == <<allPosts, generated, home, meta, page, static, timeZone>>

themeVars == <<theme, stored, clicked, icon, systemTheme>>

vars == <<blogVars, themeVars>>

---------------------------------------------------------------------------
(* Bounds *)

\* the largest number of posts in a generated collection
MaxPosts == 3

\* the largest number of posts in a collection whose dates may be invalid
MaxDraftPosts == 2

\* the largest number of clicks of the toggle
MaxClicks == 3

---------------------------------------------------------------------------
(* Strings, join and split *)

Slash == "/"

\* Variant: the segments are joined with no separator between them.
RECURSIVE JoinNoSeparator(_)
JoinNoSeparator(segs) ==
    IF Len(segs) = 0 THEN << >>
    ELSE segs[1] \o JoinNoSeparator(Tail(segs))

\* Array.prototype.join("/") on an array of strings
RECURSIVE Join(_)
Join(segs) ==
    IF Len(segs) = 0 THEN << >>
    ELSE IF Len(segs) = 1 THEN segs[1]
    ELSE segs[1] \o <<Slash>> \o Join(Tail(segs))

\* Variant: no split, the whole string is the one segment.
SplitKeepWhole(str) == <<str>>

\* String.prototype.split("/"): the pieces between the separators, the empty
\* pieces included; a string without a separator gives one piece
RECURSIVE SplitFrom(_, _)
SplitFrom(s, cur) ==
    IF Len(s) = 0 THEN <<cur>>
    ELSE IF Head(s) = Slash THEN <<cur>> \o SplitFrom(Tail(s), << >>)
    ELSE SplitFrom(Tail(s), Append(cur, Head(s)))

Split(str) == SplitFrom(str, << >>)

---------------------------------------------------------------------------
(* Dates *)

\* A front-matter date "YYYY-MM-DD" is the triple <<y, m, d>>.
IsLeap(y) == (y % 4 = 0 /\ y % 100 # 0) \/ (y % 400 = 0)

DaysInMonth(y, m) ==
    IF m = 2 THEN (IF IsLeap(y) THEN 29 ELSE 28)
    ELSE IF m \in {4, 6, 9, 11} THEN 30 ELSE 31

RECURSIVE DaysBeforeMonth(_, _)
DaysBeforeMonth(y, m) ==
    IF m = 1 THEN 0 ELSE DaysBeforeMonth(y, m - 1) + DaysInMonth(y, m - 1)

\* the number of leap years before year y
LeapYearsBefore(y) == (y - 1) \div 4 - (y - 1) \div 100 + (y - 1) \div 400

\* days from 1970-01-01 to January 1st of year y (y >= 1970): 365 for
\* each year and one more for each leap year among them
DaysBeforeYear(y) ==
    365 * (y - 1970) + LeapYearsBefore(y) - LeapYearsBefore(1970)

\* new Date(date).getTime(): a date-only ISO string is parsed as midnight UTC.
\* The value is kept in days (getTime() is this number times 86400000, which
\* does not fit TLC's 32-bit integers); the scale changes no comparison.
getTime(date) ==
    DaysBeforeYear(date[1]) + DaysBeforeMonth(date[1], date[2]) + (date[3] - 1)

\* A date that is missing (post.date is undefined) is << >>; a date string
\* with a month or a day that does not exist is malformed. For both,
\* new Date(date) is an Invalid Date and getTime() is NaN.
IsValidDate(date) ==
    /\ Len(date) = 3
    /\ date[2] \in 1..12
    /\ date[3] \in 1..DaysInMonth(date[1], date[2])

\* the calendar date <<y, m, d>> of a day number: the year, then the month
RECURSIVE YearOfDay(_, _)
YearOfDay(n, y) ==
    IF n < DaysBeforeYear(y + 1) THEN y ELSE YearOfDay(n, y + 1)

RECURSIVE MonthOfDay(_, _, _)
MonthOfDay(n, y, m) ==
    IF n < DaysBeforeMonth(y, m) + DaysInMonth(y, m) THEN m
    ELSE MonthOfDay(n, y, m + 1)

CivilFromDays(n) ==
    LET y   == YearOfDay(n, 1970 + (n \div 366))
        rem == n - DaysBeforeYear(y)
        m   == MonthOfDay(rem, y, 1)
    IN  <<y, m, rem - DaysBeforeMonth(y, m) + 1>>

\* the date the instant falls on in the time zone of the process: no
\* timeZone option is given, so the formatter uses the process's own
LocalDate(date) == CivilFromDays((getTime(date) * 24 + timeZone) \div 24)

\* the en-US month names for month: "long" and month: "short"
MonthLong ==
    << "January", "February", "March", "April", "May", "June", "July",
       "August", "September", "October", "November", "December" >>

MonthShort ==
    << "Jan", "Feb", "Mar", "Apr", "May", "Jun", "Jul", "Aug", "Sep", "Oct",
       "Nov", "Dec" >>

\* Variant: an Invalid Date is formatted as the empty string.
toLocaleDateStringBlank(date, month) ==
    IF ~IsValidDate(date) THEN ""
    ELSE LET local == LocalDate(date) IN
         (IF month = "long" THEN MonthLong[local[2]] ELSE MonthShort[local[2]])
         \o " " \o ToString(local[3]) \o ", " \o ToString(local[1])

\* new Date(date).toLocaleDateString("en-US",
\*     { year: "numeric", month: month, day: "numeric" })
toLocaleDateString(date, month) ==
    IF ~IsValidDate(date) THEN "Invalid Date"
    ELSE LET local == LocalDate(date) IN
         (IF month = "long" THEN MonthLong[local[2]] ELSE MonthShort[local[2]])
         \o " " \o ToString(local[3]) \o ", " \o ToString(local[1])

---------------------------------------------------------------------------
(* The generated collection *)

Undefined == "<undefined>"

\* slugAsParams values of the content files, in the order in which the
\* pipeline reads the files: "A", "a", "a/a", "aa"
SlugList == << <<"A">>, <<"a">>, <<"a", "/", "a">>, <<"a", "a">> >>

\* front-matter dates: those of the two posts of the repository and the
\* earlier one of the spec's scenario
Dates == { <<2025, 1, 1>>, <<2025, 5, 13>>, <<2025, 6, 2>> }

\* Posts 1 and 3 carry the same title; post 2 has no description.
TitleOf(id) == IF id % 2 = 1 THEN "Docker with PHP and Vite HMR"
               ELSE "Mastering the Repository Pattern"

\* Post 3 has the empty description.
DescriptionOf(id) ==
    IF id % 2 = 0 THEN Undefined
    ELSE IF id % 3 = 0 THEN ""
    ELSE "desc-" \o ToString(id)

\* the optional tag list: post 1 has none, post 2 has two tags, post 3 has
\* the empty list, post 4 has one tag
TagsOf(id) ==
    IF id % 4 = 1 THEN << >>
    ELSE IF id % 4 = 2 THEN << <<"Laravel", "PHP">> >>
    ELSE IF id % 4 = 3 THEN << << >> >>
    ELSE << <<"Docker">> >>

\* the route of a post, which the pipeline computes from the file path
SlugOf(slugAsParams) == <<Slash, "posts", Slash>> \o slugAsParams

Post(id, slug, date) ==
    [ _id          |-> id,
      title        |-> TitleOf(id),
      description  |-> DescriptionOf(id),
      date         |-> date,
      tags         |-> TagsOf(id),
      slug         |-> SlugOf(slug),
      slugAsParams |-> slug,
      body         |-> [code |-> "code-" \o ToString(id)] ]

\* The collections the content pipeline can generate: at most MaxPosts
\* posts, one per content file and in file order, so ids and slugAsParams
\* are unique; the dates are whatever the front matter says.
Collections ==
    UNION { { [i \in 1..n |-> Post(i, SlugList[sl[i]], dt[i])] :
                sl \in { f \in [1..n -> 1..Len(SlugList)] :
                           \A i, j \in 1..n : i < j => f[i] < f[j] },
                dt \in [1..n -> Dates] } : n \in 0..MaxPosts }

\* the date "2025-13-45" and the date that is not there
MalformedDate == <<2025, 13, 45>>

MissingDate == << >>

DraftDates == { <<2025, 1, 1>>, <<2025, 6, 2>>, MalformedDate, MissingDate }

\* The collections of content files whose dates nobody has validated.
DraftCollections ==
    UNION { { [i \in 1..n |-> Post(i, SlugList[i], dt[i])] :
                dt \in [1..n -> DraftDates] } : n \in 0..MaxDraftPosts }

---------------------------------------------------------------------------
(* The listing: Home *)

\* post.description && ... : a description is rendered when it is truthy
Truthy(str) == str # Undefined /\ str # ""

\* Variant: the operands of the subtraction exchanged (oldest first).
compareFnAscending(a, b) == getTime(a.date) - getTime(b.date)

\* (a, b) => new Date(b.date).getTime() - new Date(a.date).getTime()
compareFn(a, b) == getTime(b.date) - getTime(a.date)

\* What sort() makes of the comparator's result: with an Invalid Date the
\* subtraction gives NaN, which sort() takes as +0.
SortCompare(a, b) ==
    IF IsValidDate(a.date) /\ IsValidDate(b.date) THEN compareFn(a, b) ELSE 0

\* Variant: an unstable sort, which puts x before the elements it ties with.
RECURSIVE InsertSortedUnstable(_, _)
InsertSortedUnstable(sorted, x) ==
    IF Len(sorted) = 0 THEN <<x>>
    ELSE IF SortCompare(x, Head(sorted)) <= 0 THEN <<x>> \o sorted
    ELSE <<Head(sorted)>> \o InsertSortedUnstable(Tail(sorted), x)

\* One step of Array.prototype.sort: x is put before the first element it
\* must precede (the comparator is negative) and so after every element it ties
\* with. The sort is stable as ECMAScript 2019 requires.
RECURSIVE InsertSorted(_, _)
InsertSorted(sorted, x) ==
    IF Len(sorted) = 0 THEN <<x>>
    ELSE IF SortCompare(x, Head(sorted)) < 0 THEN <<x>> \o sorted
    ELSE <<Head(sorted)>> \o InsertSorted(Tail(sorted), x)

RECURSIVE SortInto(_, _)
SortInto(sorted, rest) ==
    IF Len(rest) = 0 THEN sorted
    ELSE SortInto(InsertSorted(sorted, Head(rest)), Tail(rest))

\* allPosts.sort(compareFn): the array's elements in sorted order
ArraySort(arr) == SortInto(<< >>, arr)

\* The order sort() leaves. The comparator is consistent when its ties are
\* transitive; when an Invalid Date among valid ones breaks that, the order
\* is implementation-defined: any order of the same elements.
ConsistentComparator(arr) ==
    \A i, j, k \in 1..Len(arr) :
        ( SortCompare(arr[i], arr[j]) = 0 /\ SortCompare(arr[j], arr[k]) = 0 )
        => SortCompare(arr[i], arr[k]) = 0

PermutationsOf(arr) ==
    { [i \in 1..Len(arr) |-> arr[f[i]]] :
        f \in { g \in [1..Len(arr) -> 1..Len(arr)] :
                  \A i, j \in 1..Len(arr) : g[i] = g[j] => i = j } }

SortOutcomes(arr) ==
    IF ConsistentComparator(arr) THEN { ArraySort(arr) }
    ELSE PermutationsOf(arr)

\* Variant: the listing asks for the long month name.
HomeMonthLong == "long"

\* the month option of the listing's date
HomeMonth == "short"

\* Variant: the tag container is rendered whenever the list is defined.
TagBadgesWhenDefined(post) == post.tags

\* post.tags && post.tags.length > 0 && (<div>{post.tags.map(...)}</div>):
\* the badges, one per tag, when there is a tag
TagBadges(post) ==
    IF post.tags # << >> /\ Len(post.tags[1]) > 0 THEN post.tags ELSE << >>

\* one <article> of the listing; date is the post's date (history), time is
\* the text of the <time> element
Entry(post) ==
    [ key         |-> post._id,
      href        |-> post.slug,
      title       |-> post.title,
      date        |-> post.date,
      month       |-> HomeMonth,
      time        |-> toLocaleDateString(post.date, HomeMonth),
      description |-> IF Truthy(post.description)
                      THEN <<post.description>> ELSE << >>,
      tags        |-> TagBadges(post) ]

\* Variant: an empty collection is listed as one placeholder entry.
EntriesOrPlaceholder(sortedPosts) ==
    IF Len(sortedPosts) = 0
    THEN << [ key |-> 0, href |-> <<Slash>>, title |-> "No posts yet",
              date |-> <<1970, 1, 1>>, month |-> HomeMonth, time |-> "",
              description |-> << >>, tags |-> << >> ] >>
    ELSE [i \in 1..Len(sortedPosts) |-> Entry(sortedPosts[i])]

\* Variant: the listing shows the first two posts only (a first page).
EntriesFirstPage(sortedPosts) ==
    [i \in 1..(IF Len(sortedPosts) < 2 THEN Len(sortedPosts) ELSE 2) |->
        Entry(sortedPosts[i])]

\* sortedPosts.map((post) => <article ...>)
Entries(sortedPosts) ==
    [i \in 1..Len(sortedPosts) |-> Entry(sortedPosts[i])]

\* Home(): sort() sorts the imported array in place and returns that same
\* array, so allPosts itself is reordered.
\* prev is the entries of the render before this one, if there was one.
Home ==
    /\ allPosts' \in SortOutcomes(allPosts)
    /\ home' = [ status  |-> "ok",
                 entries |-> Entries(allPosts'),
                 prev    |-> IF home.status = "ok"
                             THEN <<home.entries>> ELSE << >> ]
    /\ UNCHANGED <<generated, meta, page, static, timeZone>>
    /\ UNCHANGED themeVars

---------------------------------------------------------------------------
(* The lookup: getPostFromParams *)

\* The value undefined where a string is expected: a sequence, as the
\* strings are, which holds no character and so equals no string.
UndefinedString == <<Undefined>>

\* The value undefined where an array of strings is expected.
UndefinedArray == <<UndefinedString>>

\* A params object that has no slug: params.slug is undefined.
ParamsWithoutSlug == [slug |-> UndefinedArray]

\* No params object: params is undefined and params?.slug is undefined too,
\* which is what the slug field says.
UndefinedParams == [slug |-> UndefinedArray, params |-> Undefined]

\* the requests that come without route parameters or without a slug
AbsentRequests == {UndefinedParams, ParamsWithoutSlug}

\* the route parameters of the requests: ["a"], ["A"], ["aa"], ["a","a"],
\* ["a",""], and ["a/a"] (one segment holding a separator)
Requests ==
    { [slug |-> << <<"a">> >>],
      [slug |-> << <<"A">> >>],
      [slug |-> << <<"a", "a">> >>],
      [slug |-> << <<"a">>, <<"a">> >>],
      [slug |-> << <<"a">>, << >> >>],
      [slug |-> << <<"a", "/", "a">> >>] }
    \cup AbsentRequests

\* Variant: a request without a slug falls back to the slug "a".
JoinedSlugOrDefault(params) ==
    IF params = UndefinedParams THEN <<"a">>
    ELSE IF params.slug = UndefinedArray THEN <<"a">>
    ELSE Join(params.slug)

\* params?.slug?.join("/"): undefined when params or params.slug is
\* undefined (the optional chaining stops there), the joined segments
\* otherwise
JoinedSlug(params) ==
    IF params = UndefinedParams THEN UndefinedString
    ELSE IF params.slug = UndefinedArray THEN UndefinedString
    ELSE Join(params.slug)

\* String.prototype.toLowerCase on the letters of the model
Lower(str) == [k \in 1..Len(str) |-> IF str[k] = "A" THEN "a" ELSE str[k]]

\* String.prototype.startsWith: pre is a prefix of str
IsPrefixOf(pre, str) ==
    Len(pre) <= Len(str) /\ SubSeq(str, 1, Len(pre)) = pre

\* Variant: the comparison ignores case.
SlugMatchesIgnoreCase(post, slug) == Lower(post.slugAsParams) = Lower(slug)

\* Variant: a post matches when its slug starts with the requested one.
SlugMatchesPrefix(post, slug) == IsPrefixOf(slug, post.slugAsParams)

\* post.slugAsParams === slug
SlugMatches(post, slug) == post.slugAsParams = slug

\* Variant: a search that falls back to the first post when none matches.
FindOrFirst(arr, slug) ==
    LET hits == { k \in 1..Len(arr) : arr[k].slugAsParams = slug } IN
    IF hits # {} THEN <<arr[CHOOSE k \in hits : \A h \in hits : k <= h]>>
    ELSE IF Len(arr) > 0 THEN <<arr[1]>>
    ELSE << >>

\* Array.prototype.find: the first element that matches, or undefined
RECURSIVE Find(_, _)
Find(arr, slug) ==
    IF Len(arr) = 0 THEN << >>
    ELSE IF SlugMatches(Head(arr), slug) THEN <<Head(arr)>>
    ELSE Find(Tail(arr), slug)

\* getPostFromParams(params): the statement `null` in the if changes
\* nothing, the result of find is returned as it is
getPostFromParams(params) == Find(allPosts, JoinedSlug(params))

---------------------------------------------------------------------------
(* generateMetadata *)

\* the Metadata object as its set of properties: {} or {title, description}
MetadataOf(post) ==
    IF post = << >> THEN {}
    ELSE { <<"title", post[1].title>>,
           <<"description", post[1].description>> }

\* Variant: the lookup uses the first segment only (the join is forgotten).
MetadataForFirstSegment(params) ==
    MetadataOf(IF Len(params.slug) = 0 THEN << >>
               ELSE Find(allPosts, params.slug[1]))

\* const post = await getPostFromParams(params); if (!post) return {}; ...
MetadataFor(params) == MetadataOf(getPostFromParams(params))

generateMetadata(params) ==
    /\ meta' = [ status |-> "done", params |-> params,
                 value  |-> MetadataFor(params) ]
    /\ UNCHANGED <<allPosts, generated, home, page, static, timeZone>>
    /\ UNCHANGED themeVars

---------------------------------------------------------------------------
(* generateStaticParams *)

\* allPosts.map((post) => ({ slug: post.slugAsParams.split("/") }))
StaticParams(posts) ==
    [i \in 1..Len(posts) |-> [slug |-> Split(posts[i].slugAsParams)]]

\* from is the _id of the post each path was made from (history).
generateStaticParams ==
    /\ static' = [ status |-> "done", paths |-> StaticParams(allPosts),
                   from   |-> [i \in 1..Len(allPosts) |-> allPosts[i]._id] ]
    /\ UNCHANGED <<allPosts, generated, home, meta, page, timeZone>>
    /\ UNCHANGED themeVars

---------------------------------------------------------------------------
(* PostPage *)

NoDate == << >>

Block(tag, text) == [tag |-> tag, text |-> text, date |-> NoDate, month |-> ""]

\* the not-found view the router shows in place of the page
NotFound ==
    << Block("h1", "404"),
       Block("h2", "Page Not Found"),
       Block("p", "The page you're looking for doesn't exist.") >>

\* notFound() does not return: the request ends with the not-found signal
\* and nothing after the call is evaluated
notFound == [status |-> "notFound", post |-> << >>, article |-> NotFound]

\* the author footer
Info == Block("Info", "Hi, I'm Martin Duchev.")

\* Variant: the author footer is put above the body.
ArticleFooterFirst(post) ==
    << Block("h1", post.title),
       [ tag  |-> "p.date", text |-> toLocaleDateString(post.date, "long"),
         date |-> <<post.date>>, month |-> "long" ] >>
    \o (IF Truthy(post.description)
        THEN << Block("p.description", post.description) >> ELSE << >>)
    \o << Block("hr", ""), Info, Block("Mdx", post.body.code) >>

\* the <article> returned for a post
Article(post) ==
    << Block("h1", post.title),
       [ tag  |-> "p.date", text |-> toLocaleDateString(post.date, "long"),
         date |-> <<post.date>>, month |-> "long" ] >>
    \o (IF Truthy(post.description)
        THEN << Block("p.description", post.description) >> ELSE << >>)
    \o << Block("hr", ""), Block("Mdx", post.body.code), Info >>

PostPageResult(post) ==
    IF post = << >> THEN notFound
    ELSE [status |-> "rendered", post |-> post, article |-> Article(post[1])]

PostPage(params) ==
    /\ page' = [params |-> params] @@ PostPageResult(getPostFromParams(params))
    /\ UNCHANGED <<allPosts, generated, home, meta, static, timeZone>>
    /\ UNCHANGED themeVars

\* The build renders the page of every path generateStaticParams gave.
PreRender ==
    /\ static.status = "done"
    /\ \E i \in 1..Len(static.paths) : PostPage(static.paths[i])

---------------------------------------------------------------------------
(* The theme: ThemeProvider, ModeToggle, GitHubIcon *)

\* <ThemeProvider attribute="class" defaultTheme="system" enableSystem>
defaultTheme == "system"

\* the theme shown: with enableSystem, "system" is the system's preference
ResolvedTheme(t) == IF t = "system" THEN systemTheme ELSE t

\* Variant: the icon follows the theme that is shown.
GitHubIconResolved(t) ==
    IF ResolvedTheme(t) # "dark" THEN "/github-mark.svg"
    ELSE "/github-mark-white.svg"

\* GitHubIcon: theme !== "dark" ? github-mark.svg : github-mark-white.svg
GitHubIcon(t) ==
    IF t # "dark" THEN "/github-mark.svg" ELSE "/github-mark-white.svg"

\* Variant: the toggle goes through the three themes in turn.
ToggledThemeCycle(t) ==
    IF t = "light" THEN "dark" ELSE IF t = "dark" THEN "system" ELSE "light"

\* Variant: the comparison is with "dark".
ToggledThemeFromDark(t) == IF t = "dark" THEN "light" ELSE "dark"

\* theme === "light" ? "dark" : "light"
ToggledTheme(t) == IF t = "light" THEN "dark" ELSE "light"

\* useTheme() gives undefined until the provider has read, on the client,
\* the persisted theme; without one it gives the default. The components
\* that use the theme are rendered again.
ThemeResolve ==
    /\ theme = Undefined
    /\ theme' = IF stored = Undefined THEN defaultTheme ELSE stored
    /\ icon' = GitHubIcon(theme')
    /\ UNCHANGED <<stored, clicked, systemTheme>>
    /\ UNCHANGED blogVars

\* onClick={() => setTheme(theme === "light" ? "dark" : "light")}: the
\* provider sets and persists the theme, and the components that use it
\* are rendered again.
ModeToggle ==
    /\ Len(clicked) < MaxClicks
    /\ theme' = ToggledTheme(theme)
    /\ stored' = theme'
    /\ icon' = GitHubIcon(theme')
    /\ clicked' = Append(clicked, theme)
    /\ UNCHANGED systemTheme
    /\ UNCHANGED blogVars

---------------------------------------------------------------------------
(* The system *)

NoParams == [slug |-> << >>]

\* the time zones of the processes that render: west of, at and east of UTC
TimeZones == { 0 - 5, 0, 2 }

\* no render and no call yet
InitOutputs ==
    /\ generated = allPosts
    /\ home = [status |-> "idle", entries |-> << >>, prev |-> << >>]
    /\ meta = [status |-> "idle", params |-> NoParams, value |-> {}]
    /\ page = [ params |-> NoParams, status |-> "idle", post |-> << >>,
                article |-> << >> ]
    /\ static = [status |-> "idle", paths |-> << >>, from |-> << >>]

\* the page as the server renders it: no theme yet, no click yet
InitTheme ==
    /\ theme = Undefined
    /\ clicked = << >>
    /\ icon = GitHubIcon(theme)

\* The blog over a generated collection, rendered at UTC for a first visit.
Init ==
    /\ allPosts \in Collections
    /\ InitOutputs
    /\ timeZone = 0
    /\ InitTheme
    /\ stored = Undefined
    /\ systemTheme = "light"

Next ==
    \/ Home
    \/ \E params \in Requests : generateMetadata(params)
    \/ \E params \in Requests : PostPage(params)
    \/ generateStaticParams
    \/ PreRender

Spec == Init /\ [][Next]_vars

\* The listing and the detail view over content whose dates nobody has
\* validated, rendered in any time zone.
InitDraft ==
    /\ allPosts \in DraftCollections
    /\ InitOutputs
    /\ timeZone \in TimeZones
    /\ InitTheme
    /\ stored = Undefined
    /\ systemTheme = "light"

NextDraft ==
    \/ Home
    \/ \E params \in Requests : PostPage(params)

SpecDraft == InitDraft /\ [][NextDraft]_vars

\* The toggle and the icon in the layout around the listing, for a first
\* visit or a visit with a theme persisted by an earlier one, on a light or
\* a dark system.
InitLayout ==
    /\ allPosts \in { c \in Collections : Len(c) <= 1 }
    /\ InitOutputs
    /\ timeZone = 0
    /\ InitTheme
    /\ stored \in {Undefined, "light", "dark"}
    /\ systemTheme \in {"light", "dark"}

NextLayout ==
    \/ ThemeResolve
    \/ ModeToggle
    \/ Home

SpecLayout == InitLayout /\ [][NextLayout]_vars

---------------------------------------------------------------------------
(* Properties of the listing *)

\* the position of the post with this _id in the generated collection
PosInGenerated(id) == CHOOSE k \in 1..Len(generated) : generated[k]._id = id

\* C1: the entries of the listing are ordered by parsed date, newest first:
\* each entry's timestamp is at least that of the entry after it.
ListingSortedByDateDesc ==
    home.status = "ok" =>
        \A i \in 1..(Len(home.entries) - 1) :
            getTime(home.entries[i].date) >= getTime(home.entries[i + 1].date)

\* the spec's scenario: [{a, 2025-01-01}, {b, 2025-06-02}] is listed as [b, a]
ListingScenarioReached ==
    /\ home.status = "ok"
    /\ Len(generated) = 2
    /\ generated[1].date = <<2025, 1, 1>>
    /\ generated[2].date = <<2025, 6, 2>>
    /\ Len(home.entries) = 2
    /\ home.entries[1].key = generated[2]._id
    /\ home.entries[2].key = generated[1]._id

\* C2: the sort is stable: two posts whose dates parse to the same instant
\* are listed in the order they have in the generated collection.
ListingSortStable ==
    home.status = "ok" =>
        \A i, j \in 1..Len(home.entries) :
            ( /\ i < j
              /\ getTime(home.entries[i].date) = getTime(home.entries[j].date) )
            => PosInGenerated(home.entries[i].key)
                   < PosInGenerated(home.entries[j].key)

\* a listing of three posts in which the first and the last generated post
\* tie and the post generated between them is newer
ListingTieReached ==
    /\ home.status = "ok"
    /\ Len(generated) = 3
    /\ generated[1].date = generated[3].date
    /\ getTime(generated[2].date) > getTime(generated[1].date)
    /\ home.entries[2].key = generated[1]._id
    /\ home.entries[3].key = generated[3]._id

---------------------------------------------------------------------------
(* Properties of the lookup *)

\* the posts of the generated collection whose slugAsParams is this string
PostsWithSlug(slug) ==
    { k \in 1..Len(generated) : generated[k].slugAsParams = slug }

\* C3: a request whose segments joined with "/" are the slugAsParams of a
\* post gets exactly that post, and whatever post a lookup returns has a
\* slugAsParams equal, character by character, to the joined request.
LookupReturnsExactPost ==
    page.status # "idle" =>
        /\ \A k \in PostsWithSlug(Join(page.params.slug)) :
               page.post = <<generated[k]>>
        /\ page.post # << >> =>
               page.post[1].slugAsParams = Join(page.params.slug)

\* the request "A" is served by the post "A" although the post "a" exists
\* and comes first in the collection
LookupCaseVariantReached ==
    /\ page.status = "rendered"
    /\ Join(page.params.slug) = <<"A">>
    /\ page.post[1].slugAsParams = <<"A">>
    /\ PostsWithSlug(<<"a">>) # {}
    /\ allPosts[1].slugAsParams = <<"a">>

\* C4: a request whose joined slug is no post's slugAsParams: the lookup
\* returns undefined, PostPage signals not-found and generateMetadata
\* returns the empty object.
MissingSlugIsNotFound ==
    /\ ( page.status # "idle" /\ PostsWithSlug(Join(page.params.slug)) = {} )
       => ( page.post = << >> /\ page.status = "notFound" )
    /\ ( meta.status = "done" /\ PostsWithSlug(Join(meta.params.slug)) = {} )
       => meta.value = {}

\* both handlers have answered a request for a slug that a non-empty
\* collection does not hold
MissingSlugReached ==
    /\ Len(generated) > 0
    /\ page.status = "notFound"
    /\ meta.status = "done"
    /\ meta.params = page.params
    /\ meta.value = {}
    /\ PostsWithSlug(Join(page.params.slug)) = {}

---------------------------------------------------------------------------
(* Properties of the shared collection *)

\* C5: the collection is never mutated at request time: allPosts holds the
\* records the pipeline generated, in the order it generated them.
CollectionNeverMutated == allPosts = generated

\* C6: every render is independent of the renders before it: each output is
\* the one the operation gives on the collection as generated.
RendersIndependent ==
    /\ home.status = "ok" => home.entries = Entries(ArraySort(generated))
    /\ static.status = "done" => static.paths = StaticParams(generated)
    /\ page.status # "idle" =>
           page.post = Find(generated, JoinedSlug(page.params))
    /\ meta.status = "done" =>
           meta.value = MetadataOf(Find(generated, JoinedSlug(meta.params)))

---------------------------------------------------------------------------
(* Properties of the detail view *)

\* the slugs of the generated collection that the string misses narrowly:
\* it is a proper prefix, a proper extension or a case variant of them
NearMisses(slug) ==
    { k \in 1..Len(generated) :
        LET t == generated[k].slugAsParams IN
        /\ t # slug
        /\ \/ IsPrefixOf(slug, t)
           \/ IsPrefixOf(t, slug)
           \/ Lower(t) = Lower(slug) }

\* nothing of any post is in the article: no title, date, description, body
NoPostContent(article) ==
    \A b \in 1..Len(article) :
        /\ article[b].date = NoDate
        /\ article[b].tag \notin {"p.date", "p.description", "Mdx"}
        /\ \A k \in 1..Len(generated) :
               article[b].text \notin { generated[k].title,
                                        generated[k].description,
                                        generated[k].body.code }

\* C7: there is no fallback search: a request that is only a proper prefix,
\* a proper extension or a case variant of existing slugs is not found, and
\* a request that is not found renders nothing of any post.
NotFoundIsTerminal ==
    /\ ( /\ page.status # "idle"
         /\ PostsWithSlug(Join(page.params.slug)) = {}
         /\ NearMisses(Join(page.params.slug)) # {} )
       => page.status = "notFound"
    /\ page.status = "notFound" =>
           ( page.post = << >> /\ NoPostContent(page.article) )

\* the request "a/" is not found although "a" (a prefix of it) and "a/a"
\* (an extension of it) are posts
NearMissReached ==
    /\ page.status = "notFound"
    /\ Join(page.params.slug) = <<"a", "/">>
    /\ PostsWithSlug(<<"a">>) # {}
    /\ PostsWithSlug(<<"a", "/", "a">>) # {}
    /\ Len(page.article) = Len(NotFound)

\* C8: for one request, generateMetadata returns the title and description
\* of the post PostPage renders, and the empty object exactly when PostPage
\* signals not-found.
MetadataMatchesPage ==
    ( meta.status = "done" /\ page.status # "idle"
      /\ meta.params = page.params )
    => /\ (meta.value = {}) <=> (page.status = "notFound")
       /\ page.status = "rendered" =>
              /\ meta.value = { <<"title", page.post[1].title>>,
                                <<"description", page.post[1].description>> }
              /\ page.article[1].text = page.post[1].title

\* metadata and page of the request ["a", "a"], answered by the post "a/a"
\* while the post "a" exists, with the listing rendered on the way
MetadataAndPageReached ==
    /\ meta.status = "done"
    /\ page.status = "rendered"
    /\ meta.params = page.params
    /\ Len(page.params.slug) = 2
    /\ PostsWithSlug(<<"a">>) # {}
    /\ allPosts # generated

\* C9: generateStaticParams gives one path per post: as many paths as
\* posts, and for each post exactly one path, whose segments hold no "/"
\* and joined with "/" are the post's slugAsParams.
StaticParamsOnePerPost ==
    static.status = "done" =>
        /\ Len(static.paths) = Len(generated)
        /\ \A k \in 1..Len(generated) :
               Cardinality({ i \in 1..Len(static.paths) :
                   /\ Join(static.paths[i].slug) = generated[k].slugAsParams
                   /\ \A g \in 1..Len(static.paths[i].slug) :
                          \A c \in 1..Len(static.paths[i].slug[g]) :
                              static.paths[i].slug[g][c] # Slash }) = 1

\* the paths of three posts, one of them of two segments
StaticParamsReached ==
    /\ static.status = "done"
    /\ Len(static.paths) = 3
    /\ \E i \in 1..Len(static.paths) : Len(static.paths[i].slug) = 2

\* C10: the listing of an empty collection has no entry and raises no error.
EmptyListing ==
    ( home.status # "idle" /\ Len(generated) = 0 )
    => ( home.status = "ok" /\ Len(home.entries) = 0 )

\* Home has rendered the empty collection
EmptyListingReached ==
    /\ Len(generated) = 0
    /\ home.status = "ok"
    /\ Len(home.entries) = 0

---------------------------------------------------------------------------
(* Properties of what the listing shows *)

\* the post of the generated collection with this _id
GeneratedPost(id) == generated[PosInGenerated(id)]

\* C11: the listing has no pagination and no filter: it has as many entries
\* as the collection has posts, and every post is in exactly one entry.
ListingIsPermutation ==
    home.status = "ok" =>
        /\ Len(home.entries) = Len(generated)
        /\ \A k \in 1..Len(generated) :
               Cardinality({ i \in 1..Len(home.entries) :
                   home.entries[i].key = generated[k]._id }) = 1

\* three posts are listed, in another order than they were generated in
ListingOfThreeReached ==
    /\ home.status = "ok"
    /\ Len(generated) = 3
    /\ Len(home.entries) = 3
    /\ home.entries[1].key # generated[1]._id

\* The text expected for the dates of the content, written out: a date is
\* midnight UTC, which west of UTC is still the evening of the day before.
ExpectedDateText(date, month) ==
    IF date = <<2025, 1, 1>> THEN
        (IF timeZone < 0
         THEN (IF month = "long" THEN "December 31, 2024" ELSE "Dec 31, 2024")
         ELSE (IF month = "long" THEN "January 1, 2025" ELSE "Jan 1, 2025"))
    ELSE IF date = <<2025, 5, 13>> THEN
        (IF timeZone < 0 THEN "May 12, 2025" ELSE "May 13, 2025")
    ELSE IF date = <<2025, 6, 2>> THEN
        (IF timeZone < 0
         THEN (IF month = "long" THEN "June 1, 2025" ELSE "Jun 1, 2025")
         ELSE (IF month = "long" THEN "June 2, 2025" ELSE "Jun 2, 2025"))
    ELSE "Invalid Date"

\* an entry links its title to the post's slug
EntryLinksTitle(entry) ==
    /\ entry.title = GeneratedPost(entry.key).title
    /\ entry.href = <<"/", "posts", "/">> \o GeneratedPost(entry.key).slugAsParams

\* C12, as the spec states it: every entry shows the title as a link to the
\* post's slug and the date with the long month name, the numeric day and
\* the numeric year, the format of the detail view.
ListingEntryLongDate ==
    home.status = "ok" =>
        \A i \in 1..Len(home.entries) :
            /\ EntryLinksTitle(home.entries[i])
            /\ IsValidDate(home.entries[i].date) =>
                   home.entries[i].time
                       = ExpectedDateText(home.entries[i].date, "long")

\* C12, amended: every entry shows the title as a link to the post's slug
\* and the date with the short month name, the numeric day and the numeric
\* year, as the date falls in the time zone of the rendering process.
ListingEntryShortDate ==
    home.status = "ok" =>
        \A i \in 1..Len(home.entries) :
            /\ EntryLinksTitle(home.entries[i])
            /\ IsValidDate(home.entries[i].date) =>
                   home.entries[i].time
                       = ExpectedDateText(home.entries[i].date, "short")

\* the post "A" of 2025-06-02 is listed as "Jun 2, 2025", linked to /posts/A
ListingEntryReached ==
    /\ home.status = "ok"
    /\ \E i \in 1..Len(home.entries) :
           /\ home.entries[i].time = "Jun 2, 2025"
           /\ home.entries[i].date = <<2025, 6, 2>>
           /\ home.entries[i].href = <<"/", "posts", "/", "A">>

\* C13, as the spec states it: a render over a collection that holds a post
\* with a malformed or missing date ends in a runtime error, so no listing
\* and no detail view of such a post is ever completed.
BadDateEndsInError ==
    /\ home.status = "ok" =>
           \A k \in 1..Len(generated) : IsValidDate(generated[k].date)
    /\ page.status = "rendered" => IsValidDate(page.post[1].date)

\* C13, amended: a malformed or missing date is not handled and raises no
\* error: the listing is completed with every post in it, the detail view
\* is completed with all its parts, and both show "Invalid Date" for the
\* post.
BadDateShowsInvalidDate ==
    /\ home.status = "ok" =>
           /\ Len(home.entries) = Len(generated)
           /\ \A i \in 1..Len(home.entries) :
                  ~IsValidDate(GeneratedPost(home.entries[i].key).date)
                  => home.entries[i].time = "Invalid Date"
    /\ ( page.status = "rendered" /\ ~IsValidDate(page.post[1].date) ) =>
           /\ page.article[2].text = "Invalid Date"
           /\ page.article[Len(page.article) - 1].text = page.post[1].body.code

\* a listing with a malformed and a missing date, and the detail view of
\* the post with the malformed one
BadDateReached ==
    /\ home.status = "ok"
    /\ Len(home.entries) = 2
    /\ \E i \in 1..2 : GeneratedPost(home.entries[i].key).date = MalformedDate
    /\ \E i \in 1..2 : GeneratedPost(home.entries[i].key).date = MissingDate
    /\ page.status = "rendered"
    /\ page.post[1].date = MalformedDate

---------------------------------------------------------------------------
(* Properties of the detail view and of the optional fields *)

\* the description is defined and not empty
HasDescription(post) == post.description # Undefined /\ post.description # ""

\* C15: the detail view of a found post is, in this order, the title, the
\* formatted date, the description if there is one, a divider, the body of
\* that same post and of no other, and the author footer, which is always
\* there.
DetailViewInOrder ==
    page.status = "rendered" =>
        LET post == page.post[1]
            a    == page.article
            n    == Len(page.article)
        IN  /\ n = IF HasDescription(post) THEN 6 ELSE 5
            /\ a[1].tag = "h1" /\ a[1].text = post.title
            /\ a[2].tag = "p.date"
            /\ a[2].text = ExpectedDateText(post.date, "long")
            /\ HasDescription(post) =>
                   ( a[3].tag = "p.description" /\ a[3].text = post.description )
            /\ a[n - 2].tag = "hr"
            /\ a[n - 1].tag = "Mdx"
            /\ a[n - 1].text = GeneratedPost(post._id).body.code
            /\ \A k \in 1..Len(generated) :
                   generated[k]._id # post._id =>
                       a[n - 1].text # generated[k].body.code
            /\ a[n] = Info

\* the detail view of a post with a description, one of three posts, is
\* rendered with its six parts
DetailViewReached ==
    /\ page.status = "rendered"
    /\ Len(generated) = 3
    /\ HasDescription(page.post[1])
    /\ Len(page.article) = 6
    /\ page.article[6] = Info

\* C16: an entry of the listing has a description block exactly when the
\* post's description is defined and not empty, and tag badges exactly when
\* the post's tag list is defined and has an element; the badges are then
\* the tags, one per tag and in the order of the list.
ListingOptionalFields ==
    home.status = "ok" =>
        \A i \in 1..Len(home.entries) :
            LET entry == home.entries[i]
                post  == GeneratedPost(home.entries[i].key)
            IN  /\ (entry.description # << >>) <=> HasDescription(post)
                /\ entry.description # << >> =>
                       entry.description = <<post.description>>
                /\ (entry.tags # << >>)
                       <=> ( post.tags # << >> /\ Len(post.tags[1]) >= 1 )
                /\ entry.tags # << >> => entry.tags = post.tags

\* a listing of three posts: one with a description and no tag list, one
\* with two tags and no description, one with an empty description and an
\* empty tag list
OptionalFieldsReached ==
    /\ home.status = "ok"
    /\ Len(home.entries) = 3
    /\ \E i \in 1..3 : /\ home.entries[i].description # << >>
                       /\ GeneratedPost(home.entries[i].key).tags = << >>
    /\ \E i \in 1..3 : /\ home.entries[i].tags = << <<"Laravel", "PHP">> >>
                       /\ home.entries[i].description = << >>
    /\ \E i \in 1..3 : /\ GeneratedPost(home.entries[i].key).tags = << << >> >>
                       /\ GeneratedPost(home.entries[i].key).description = ""

\* C17: every path generateStaticParams gives, joined with "/", is the
\* slugAsParams of the post it was made from, and the lookup with that path
\* returns this post, in whatever order the collection is by then; so the
\* page of a generated path is rendered, and for this post.
StaticPathsRoundTrip ==
    static.status = "done" =>
        \A i \in 1..Len(static.paths) :
            /\ Join(static.paths[i].slug)
                   = GeneratedPost(static.from[i]).slugAsParams
            /\ getPostFromParams(static.paths[i])
                   = <<GeneratedPost(static.from[i])>>
            /\ page.params = static.paths[i] =>
                   /\ page.status = "rendered"
                   /\ page.post[1]._id = static.from[i]

\* the page of a generated path of two segments is rendered, after the
\* listing has reordered the collection
RoundTripReached ==
    /\ static.status = "done"
    /\ allPosts # generated
    /\ page.status = "rendered"
    /\ Len(page.params.slug) = 2
    /\ \E i \in 1..Len(static.paths) :
           /\ static.paths[i] = page.params
           /\ static.from[i] = page.post[1]._id

\* C18: a render of the listing that follows another one shows the same
\* entries in the same order, although the first one has reordered the
\* collection the second one sorts.
HomeIdempotent ==
    ( home.status = "ok" /\ home.prev # << >> )
    => home.entries = home.prev[1]

\* the listing of three posts is rendered a second time, the collection no
\* longer in the order it was generated in
SecondRenderReached ==
    /\ home.status = "ok"
    /\ home.prev # << >>
    /\ Len(home.entries) = 3
    /\ allPosts # generated
    /\ \E i \in 1..2 : home.entries[i].date = home.entries[i + 1].date

---------------------------------------------------------------------------
(* Properties of the theme *)

\* the theme the i-th click has set: the one the next click read, or the
\* current one
ThemeAfterClick(i) == IF i < Len(clicked) THEN clicked[i + 1] ELSE theme

LightOrDark == {"light", "dark"}

\* C14, as the spec states it: once the provider has given a theme it is
\* always one of "light" and "dark", and each click changes it to the other.
ThemeAlwaysLightOrDark ==
    /\ theme # Undefined => theme \in LightOrDark
    /\ \A i \in 1..Len(clicked) :
           clicked[i] # Undefined =>
               ( clicked[i] \in LightOrDark /\ ThemeAfterClick(i) # clicked[i] )

\* C14, amended: the theme is undefined, "system", "light" or "dark"; every
\* click sets "light" or "dark"; a click made on "light" or "dark" sets the
\* other of the two, so two clicks in a row made from there restore the
\* theme; a click made on any other value sets "light".
ThemeFlipsOnceLightOrDark ==
    /\ theme \in {Undefined, "system"} \cup LightOrDark
    /\ \A i \in 1..Len(clicked) :
           /\ ThemeAfterClick(i) \in LightOrDark
           /\ clicked[i] \in LightOrDark => ThemeAfterClick(i) # clicked[i]
           /\ clicked[i] \notin LightOrDark => ThemeAfterClick(i) = "light"
           /\ ( i < Len(clicked) /\ clicked[i] \in LightOrDark )
              => ThemeAfterClick(i + 1) = clicked[i]

\* three clicks from the default theme: "system", then "light", then "dark"
\* were read and "light" is set
ThreeClicksReached ==
    /\ clicked = <<"system", "light", "dark">>
    /\ theme = "light"

\* C19: from "system" or from undefined the first click sets "light"; after
\* a click the theme is never "system" or undefined again; a click sets
\* "dark" exactly when it read "light" and sets "light" otherwise.
FirstClickSetsLight ==
    /\ ( Len(clicked) >= 1 /\ clicked[1] \in {"system", Undefined} )
       => ThemeAfterClick(1) = "light"
    /\ Len(clicked) >= 1 => theme \notin {"system", Undefined}
    /\ \A i \in 2..Len(clicked) : clicked[i] \notin {"system", Undefined}
    /\ \A i \in 1..Len(clicked) :
           /\ ThemeAfterClick(i) = "dark" <=> clicked[i] = "light"
           /\ ThemeAfterClick(i) # "dark" => ThemeAfterClick(i) = "light"

\* the first click was made on the default theme of a dark system and set
\* "light"
FirstClickReached ==
    /\ clicked = <<"system">>
    /\ systemTheme = "dark"
    /\ theme = "light"
    /\ stored = "light"

\* C20: the icon follows the one theme value the toggle sets: it is the
\* white mark exactly when the theme is "dark" and the dark mark for every
\* other value, whatever the system prefers.
IconFollowsTheme ==
    /\ icon = "/github-mark-white.svg" <=> theme = "dark"
    /\ theme # "dark" => icon = "/github-mark.svg"

\* the theme is "system" on a dark system and the icon is the dark mark
IconOnDarkSystemReached ==
    /\ theme = "system"
    /\ systemTheme = "dark"
    /\ icon = "/github-mark.svg"

---------------------------------------------------------------------------
(* Properties of a request without parameters *)

\* C21: a request without route parameters or without a slug does not fault
\* in the lookup: no post has an undefined slugAsParams, so getPostFromParams
\* returns undefined, generateMetadata returns the empty object and PostPage
\* signals not-found.
AbsentParamsNotFound ==
    /\ \A k \in 1..Len(generated) :
           generated[k].slugAsParams # UndefinedString
    /\ \A params \in AbsentRequests :
           /\ JoinedSlug(params) = UndefinedString
           /\ getPostFromParams(params) = << >>
    /\ ( meta.status = "done" /\ meta.params \in AbsentRequests )
       => meta.value = {}
    /\ ( page.status # "idle" /\ page.params \in AbsentRequests )
       => /\ page.status = "notFound"
          /\ page.post = << >>
          /\ page.article = NotFound

\* over a collection of three posts PostPage has answered a request without
\* params and generateMetadata a request without a slug
AbsentParamsReached ==
    /\ Len(generated) = 3
    /\ page.params = UndefinedParams
    /\ page.status = "notFound"
    /\ meta.status = "done"
    /\ meta.params = ParamsWithoutSlug
    /\ meta.value = {}

=============================================================================
